---- MODULE Spec2Model ----
(***************************************************************************)
(* Visual regression pipeline of fanvue-qa-automation.                     *)
(*                                                                         *)
(*   SpecCmp  the image differ: VisualTestHelper.compareScreenshots        *)
(*            (visual-test-utils, pngjs + pixelmatch) applied to the files *)
(*            at actualPath / baselinePath / diffPath.                     *)
(*   SpecGate the pass/fail policy of expect(...).toHaveScreenshot as      *)
(*            configured in playwright-visual.config.ts.                   *)
(*   Spec     the baseline lifecycle: scripts/test-visual-local.sh and the *)
(*            visual-regression-tests job of the QA pipeline workflow      *)
(*            running `npm run test:visual` / `test:visual:update`.        *)
(*   SpecReport    VisualTestHelper.generateDiffReport.                    *)
(*   SpecSched     the runner's workers under playwright-visual.config.    *)
(*   SpecCapture   the awaited steps of a visual test, from its beforeEach *)
(*                 hook to its snapshot, and of the helper methods.        *)
(*   SpecTestRail  TestRailReporter during a run of the e2e suite and the  *)
(*                 "Upload to TestRail" step after it.                     *)
(*   SpecDiff      repeated compareScreenshots calls on one diffPath.      *)
(*   SpecSummary   generateTestSummary of the global teardown.             *)
(*   SpecComment   the "Comment PR with visual diff results" step.         *)
(*   SpecLoad      the 'errors' metric of performance-test-scenarios.js.   *)
(***************************************************************************)
EXTENDS Integers, Sequences, FiniteSets, TLC

(***************************************************************************)
(* Bounds.                                                                 *)
(***************************************************************************)
\* Largest width and height of a bitmap.
MaxSide == 2

None == "none"

\* A path at which no file exists.
NoFile == [width |-> 0, height |-> 0, data |-> <<>>]

\* No mask declared.
NoMask == <<>>

(***************************************************************************)
(* Bitmaps.  A decoded PNG is {width, height, data}; data is row-major.    *)
(* Pixels are opaque greys, written as their luminance 0..255.  A bitmap   *)
(* is a flat background with at most one pixel of another grey, so a       *)
(* bitmap holds at most two luminance levels: pixelmatch's anti-aliasing   *)
(* test needs a darker AND a brighter neighbour of the same pixel and is   *)
(* therefore false on every bitmap here; every pixel over the colour       *)
(* threshold is counted.                                                   *)
(***************************************************************************)
Gray == {0, 40, 255}
Background == {0, 255}

Sides == 1..MaxSide

Flat(w, h, g) == [width |-> w, height |-> h, data |-> [i \in 1..(w * h) |-> g]]

Spot(w, h, g, p, s) ==
    [width |-> w, height |-> h, data |-> [i \in 1..(w * h) |-> IF i = p THEN s ELSE g]]

Images ==
    { Flat(d[1], d[2], g) : d \in Sides \X Sides, g \in Background }
    \cup
    UNION { UNION { { Spot(w, h, g, p, s) : p \in 1..(w * h), s \in Gray \ {g} }
                    : g \in Background } : w \in Sides, h \in Sides }

NumPixels(img) == img.width * img.height

(***************************************************************************)
(* Mask regions declared by a test (toHaveScreenshot's `mask` option): a   *)
(* rectangle <<x0, y0, x1, y1>> of pixel coordinates, or NoMask.           *)
(***************************************************************************)
MaskRects == {NoMask, <<0, 0, 0, 0>>}

\* Is the pixel with row-major index i (1-based) of a bitmap of width w masked?
Masked(rect, w, i) ==
    /\ rect # NoMask
    /\ LET x == (i - 1) % w
           y == (i - 1) \div w
       IN  /\ rect[1] <= x /\ x <= rect[3]
           /\ rect[2] <= y /\ y <= rect[4]

(***************************************************************************)
(* VisualTestHelper (visual-test-utils).                                   *)
(***************************************************************************)
\* The per-pixel threshold option, in tenths: 0 stands for 0 or not given.
ThresholdOptions == {0, 2, 10}

\* constructor: this.threshold = options.threshold || 0.1
DefaultThreshold == 1
ConstructorThreshold(opt) == IF opt = 0 THEN DefaultThreshold ELSE opt

\* pixelmatch colorDelta on two opaque greys: 0.5053 * (y1 - y2)^2, scaled
\* by 10000.
ColorDelta(g1, g2) == 5053 * (g1 - g2) * (g1 - g2)

\* pixelmatch maxDelta = 35215 * threshold^2, scaled by 10000 (threshold in
\* tenths).
MaxDelta(t) == 3521500 * t * t

PixelDiffers(g1, g2, t) == ColorDelta(g1, g2) > MaxDelta(t)

RECURSIVE CountDiff(_, _, _, _)
CountDiff(d1, d2, t, n) ==
    IF n = 0 THEN 0
    ELSE CountDiff(d1, d2, t, n - 1) + (IF PixelDiffers(d1[n], d2[n], t) THEN 1 ELSE 0)

\* pixelmatch(img1, img2, output, width, height, {threshold}): the byte
\* lengths of img1, img2 and output must agree and equal width*height*4;
\* identical data returns 0 at once; otherwise the count of differing pixels.
Pixelmatch(img1, img2, outLen, width, height, t) ==
    IF Len(img1) # Len(img2) \/ outLen # Len(img1)
    THEN [error |-> "Image sizes do not match.", count |-> 0]
    ELSE IF Len(img1) # width * height
    THEN [error |-> "Image data size does not match width/height.", count |-> 0]
    ELSE IF img1 = img2
    THEN [error |-> None, count |-> 0]
    ELSE [error |-> None, count |-> CountDiff(img1, img2, t, width * height)]

\* The diff PNG pixelmatch draws: 1 where the pixel is counted, 0 elsewhere.
DiffImage(baseline, actual, t) ==
    [width |-> actual.width, height |-> actual.height,
     data |-> [i \in 1..NumPixels(actual) |->
                 IF PixelDiffers(baseline.data[i], actual.data[i], t) THEN 1 ELSE 0]]

\* A rational num/den, kept exact.
Frac(n, d) == [num |-> n, den |-> d]

NoCall ==
    [status |-> "none", error |-> None, match |-> FALSE, diffPixels |-> 0,
     diffPercentage |-> Frac(0, 1), wrote |-> {}]

Threw(e) ==
    [status |-> "threw", error |-> e, match |-> FALSE, diffPixels |-> 0,
     diffPercentage |-> Frac(0, 1), wrote |-> {}]

\* Faulty variant of Result: the ratio is not scaled to a percentage.
MutResultNoScale(numDiffPixels, width, height, wrote) ==
    [status |-> "returned", error |-> None,
     match |-> numDiffPixels = 0,
     diffPixels |-> numDiffPixels,
     diffPercentage |-> Frac(numDiffPixels, width * height),
     wrote |-> wrote]

\* Faulty variant of Result: match tests for differences instead of none.
MutResultMatchFlipped(numDiffPixels, width, height, wrote) ==
    [status |-> "returned", error |-> None,
     match |-> numDiffPixels > 0,
     diffPixels |-> numDiffPixels,
     diffPercentage |-> Frac(numDiffPixels * 100, width * height),
     wrote |-> wrote]

\* return { match, diffPixels, diffPercentage }
Result(numDiffPixels, width, height, wrote) ==
    [status |-> "returned", error |-> None,
     match |-> numDiffPixels = 0,
     diffPixels |-> numDiffPixels,
     diffPercentage |-> Frac(numDiffPixels * 100, width * height),
     wrote |-> wrote]

\* Faulty variant of SaveDiff: the diff image is saved after every comparison.
MutSaveDiffAlways(numDiffPixels) == numDiffPixels >= 0

\* if (numDiffPixels > 0) fs.writeFileSync(diffPath, ...)
SaveDiff(numDiffPixels) == numDiffPixels > 0

(***************************************************************************)
(* expect(...).toHaveScreenshot as configured by playwright-visual.config. *)
(***************************************************************************)
\* expect.toHaveScreenshot.threshold: 0.2, in tenths
ConfigThreshold == 2
\* expect.toHaveScreenshot.maxDiffPixels
MaxDiffPixels == 100
\* An option the configuration does not set (maxDiffPixelRatio).
Unset == -1

\* Faulty variant of WithinCaps: the comparisons against the caps are inverted.
MutWithinCapsInverted(count, total, capPixels, capRatio) ==
    /\ capPixels # Unset => count >= capPixels
    /\ capRatio # Unset => count * 100 >= total * capRatio
    /\ (capPixels = Unset /\ capRatio = Unset) => count = 0

\* The comparator's gate: the differing-pixel count against the absolute cap
\* maxDiffPixels and the relative cap maxDiffPixelRatio (here in percent of
\* the bitmap's pixels); a cap that is not set does not apply, and with
\* neither set no differing pixel is allowed.
WithinCaps(count, total, capPixels, capRatio) ==
    /\ capPixels # Unset => count <= capPixels
    /\ capRatio # Unset => count * 100 <= total * capRatio
    /\ (capPixels = Unset /\ capRatio = Unset) => count = 0

\* Does a capture pass against the stored expectation?  Bitmaps of different
\* sizes never pass.
ScreenshotPasses(expected, actual) ==
    /\ expected.width = actual.width
    /\ expected.height = actual.height
    /\ WithinCaps(CountDiff(expected.data, actual.data, ConfigThreshold,
                            NumPixels(actual)),
                  NumPixels(actual), MaxDiffPixels, Unset)

\* Faulty variant of UpdateSnapshots: test:visual passes --update-snapshots too.
MutUpdateSnapshotsAlways(cmd) == "all"

\* package.json scripts: test:visual runs the visual configuration,
\* test:visual:update adds --update-snapshots.  Without the flag Playwright
\* writes only the snapshots that are missing.
UpdateSnapshots(cmd) == IF cmd = "test:visual:update" THEN "all" ELSE "missing"

\* One toHaveScreenshot expectation: does the attempt pass, and is the
\* capture written to the snapshot path.
\*   no snapshot:  written under "all" and "missing"; passes under "all",
\*                 fails the attempt under "missing" (a snapshot doesn't
\*                 exist, writing actual);
\*   a snapshot:   compared; under "all" a capture that does not pass
\*                 replaces the snapshot and the expectation passes.
ToHaveScreenshot(mode, expected, actual) ==
    IF expected = NoFile
    THEN [pass |-> (mode = "all"), write |-> TRUE]
    ELSE IF ScreenshotPasses(expected, actual)
    THEN [pass |-> TRUE, write |-> FALSE]
    ELSE [pass |-> (mode = "all"), write |-> (mode = "all")]

VARIABLES
    threshold,   \* VisualTestHelper.threshold, in tenths
    files,       \* the files at actualPath, baselinePath, diffPath
    maskRect,    \* the mask region the test declares for this comparison
    outputDir,   \* does VisualTestHelper.outputDir exist
    ret          \* what the last compareScreenshots call did

cmpVars == <<threshold, files, maskRect, outputDir, ret>>

VARIABLES
    gCount,      \* differing pixels of the two bitmaps compared
    gTotal,      \* pixels of the bitmaps
    capPixels,   \* maxDiffPixels, or Unset
    capRatio,    \* maxDiffPixelRatio in percent, or Unset
    verdict,     \* "passed" or "failed"
    prevVerdict  \* the verdict before the caps were last raised

gateVars == <<gCount, gTotal, capPixels, capRatio, verdict, prevVerdict>>

VARIABLES
    env,             \* "local": scripts/test-visual-local.sh; "ci": the workflow job
    screenshotsDir,  \* file names under tests/visual/__screenshots__
    snapshotDir,     \* Playwright's snapshots under tests/visual/screenshots
    artifact,        \* file names in the visual-baselines artifact ({}: none)
    page,            \* what the site renders for each snapshot now
    pc,              \* "idle" or "running"
    cmd,             \* the npm script the run executes
    todo,            \* the snapshots still to test, in order
    attempt,         \* retry index of the test at the head of todo
    status,          \* the run's outcome per snapshot
    captured,        \* the run's last capture per snapshot
    startSnap,       \* snapshotDir when the run's tests started
    prev             \* the previous completed run

runVars == <<env, screenshotsDir, snapshotDir, artifact, page, pc, cmd, todo,
             attempt, status, captured, startSnap, prev>>

VARIABLES
    results,     \* the result list handed to generateDiffReport
    report,      \* the content of outputDir/report.html
    prevReport,  \* its content before the last generateDiffReport call
    repCalls,    \* generateDiffReport calls so far
    repWrote,    \* the paths the last call wrote
    repThrew     \* did the last call throw

repVars == <<results, report, prevReport, repCalls, repWrote, repThrew>>

VARIABLES
    retries,     \* the configuration's retries
    queue,       \* the tests waiting for a worker, in order
    running,     \* the tests a worker is executing
    outcome      \* the outcome of each finished test

schedVars == <<retries, queue, running, outcome>>

VARIABLES
    capProgram,  \* the test (or helper call) under execution
    capPos,      \* index of its next step
    capTrace,    \* the steps that completed, in order
    capSoft,     \* the steps whose failure was caught
    capStatus,   \* "running", "passed", "failed" or "timedOut"
    capFailedBy  \* the step that ended the test, and how

capVars == <<capProgram, capPos, capTrace, capSoft, capStatus, capFailedBy>>

VARIABLES
    trConfigured,  \* TestRailReporter.isConfigured()
    trPhase,       \* position of the run: "begin", "tests", "end", "upload", "done"
    runId,         \* TestRailReporter.runId (0: undefined)
    trCount,       \* TestRailReporter.results.length
    trAttempts,    \* requests sent to TestRail, per request
    trFailed,      \* the requests TestRail failed
    trLogged,      \* the requests whose failure was logged
    trThrew,       \* did a reporter handler throw
    runStatus,     \* FullResult.status of the test run
    stepOutcome    \* outcome of the "Upload to TestRail" step, job conclusion

trVars == <<trConfigured, trPhase, runId, trCount, trAttempts, trFailed,
            trLogged, trThrew, runStatus, stepOutcome>>

VARIABLES
    trEnded,       \* the onTestEnd calls of this behaviour, in order
    trResults,     \* the results these calls pushed to TestRailReporter.results
    trClosed,      \* has close_run of the reporter's run succeeded
    trSaved,       \* has saveRunId written test-results/testrail-run.json
    uploaded       \* what the TestRailUploader script did

sinkVars == <<trEnded, trResults, trClosed, trSaved, uploaded>>

VARIABLES
    tree,        \* the suites of the results JSON the teardown reads
    summary      \* what generateTestSummary returned for it

sumVars == <<tree, summary>>

VARIABLES
    eventName,   \* github.event_name
    testMode,    \* steps.visual-tests.outputs.test_mode
    resultsFile, \* the content of visual-test-results.json
    comment      \* the comment the github-script step posted

cmtVars == <<eventName, testMode, resultsFile, comment>>

VARIABLES
    iterations,  \* iterations of the k6 default function so far
    failedIters, \* those whose homepage check failed
    errorsTrue,  \* non-zero samples added to the Rate metric 'errors'
    errorsTotal  \* samples added to it

loadVars == <<iterations, failedIters, errorsTrue, errorsTotal>>

toolVars == <<sumVars, cmtVars, loadVars>>

laterVars == <<repVars, schedVars, capVars, trVars, sinkVars, toolVars>>

vars == <<cmpVars, gateVars, runVars, laterVars>>

(***************************************************************************)
(* compareScreenshots(actualPath, baselinePath, diffPath), as a function   *)
(* of the files: what the call returns or throws, and the files it leaves. *)
(***************************************************************************)
CompareOutcome(fs, t) ==
    IF fs["actualPath"] = NoFile \/ fs["baselinePath"] = NoFile
    THEN [ret |-> Threw("ENOENT"), fs |-> fs]
    ELSE LET actual   == fs["actualPath"]
             baseline == fs["baselinePath"]
             width    == actual.width
             height   == actual.height
             pm       == Pixelmatch(baseline.data, actual.data, width * height,
                                    width, height, t)
         IN  IF pm.error # None
             THEN [ret |-> Threw(pm.error), fs |-> fs]
             ELSE IF SaveDiff(pm.count)
             THEN [ret |-> Result(pm.count, width, height, {"diffPath"}),
                   fs  |-> [fs EXCEPT !["diffPath"] = DiffImage(baseline, actual, t)]]
             ELSE [ret |-> Result(pm.count, width, height, {}), fs |-> fs]

CmpIdle ==
    /\ threshold = DefaultThreshold
    /\ files = [actualPath |-> NoFile, baselinePath |-> NoFile, diffPath |-> NoFile]
    /\ maskRect = NoMask
    /\ outputDir = FALSE
    /\ ret = NoCall

CmpInit ==
    /\ threshold \in { ConstructorThreshold(o) : o \in ThresholdOptions }
    /\ files \in { [actualPath |-> a, baselinePath |-> b, diffPath |-> NoFile] :
                     a \in Images \cup {NoFile}, b \in Images \cup {NoFile} }
    /\ maskRect \in MaskRects
    /\ outputDir = FALSE
    /\ ret = NoCall

CompareScreenshots ==
    /\ ret.status = "none"
    /\ LET out == CompareOutcome(files, threshold)
       IN  /\ ret' = out.ret
           /\ files' = out.fs
    /\ outputDir' = TRUE
    /\ UNCHANGED <<threshold, maskRect, gateVars, runVars, laterVars>>

(***************************************************************************)
(* The gate under changing caps.                                           *)
(***************************************************************************)
Verdict(count, total, cp, cr) ==
    IF WithinCaps(count, total, cp, cr) THEN "passed" ELSE "failed"

\* Largest absolute cap tried.
MaxCap == 5
RatioSteps == {0, 25, 50, 100}

GateIdle ==
    /\ gCount = 0
    /\ gTotal = 1
    /\ capPixels = MaxDiffPixels
    /\ capRatio = Unset
    /\ verdict = "passed"
    /\ prevVerdict = None

GateInit ==
    /\ gTotal \in 1..(MaxSide * MaxSide)
    /\ gCount \in 0..gTotal
    /\ capPixels \in (0..MaxCap) \cup {Unset, MaxDiffPixels}
    /\ capRatio \in RatioSteps \cup {Unset}
    /\ verdict = Verdict(gCount, gTotal, capPixels, capRatio)
    /\ prevVerdict = None

RaisePixelCap ==
    /\ capPixels # Unset
    /\ \E c \in (0..MaxCap) \cup {MaxDiffPixels} :
          /\ c > capPixels
          /\ capPixels' = c
          /\ verdict' = Verdict(gCount, gTotal, c, capRatio)
    /\ prevVerdict' = verdict
    /\ UNCHANGED <<gCount, gTotal, capRatio, cmpVars, runVars, laterVars>>

RaiseRatioCap ==
    /\ capRatio # Unset
    /\ \E r \in RatioSteps :
          /\ r > capRatio
          /\ capRatio' = r
          /\ verdict' = Verdict(gCount, gTotal, capPixels, r)
    /\ prevVerdict' = verdict
    /\ UNCHANGED <<gCount, gTotal, capPixels, cmpVars, runVars, laterVars>>

(***************************************************************************)
(* The baseline lifecycle.                                                 *)
(***************************************************************************)
Keys == {"hero-section.png", "footer.png"}
TestOrder == <<"hero-section.png", "footer.png">>

\* What the site can render for a snapshot: the page as it is, a restyled
\* page of the same size, and a page whose layout (size) changed.
Renderings == {Flat(1, 1, 255), Flat(1, 1, 0), Flat(2, 1, 255)}

\* The files before the first of several comparisons to one diffPath.
DiffInit ==
    /\ threshold \in { ConstructorThreshold(o) : o \in ThresholdOptions }
    /\ files \in { [actualPath |-> a, baselinePath |-> b, diffPath |-> NoFile] :
                     a \in Renderings, b \in Renderings \cup {NoFile} }
    /\ maskRect = NoMask
    /\ outputDir = FALSE
    /\ ret = NoCall

\* Between two calls the caller writes the next screenshot to actualPath.
NewActual ==
    /\ ret.status # "none"
    /\ \E a \in Renderings : files' = [files EXCEPT !["actualPath"] = a]
    /\ ret' = NoCall
    /\ UNCHANGED <<threshold, maskRect, outputDir, gateVars, runVars, laterVars>>

EmptyStore == [k \in Keys |-> NoFile]
NoStatus == [k \in Keys |-> "pending"]
NoRun == [cmd |-> None, emptyAtStart |-> FALSE, captured |-> EmptyStore,
          status |-> NoStatus]

\* retries: process.env.CI ? 1 : 0
Retries(e) == IF e = "ci" THEN 1 ELSE 0

\* [ -d tests/visual/__screenshots__ ] && [ "$(ls -A tests/visual/__screenshots__)" ]
HasBaselines(dir) == dir # {}

\* The command the script and the job choose.
RunCommand(dir) == IF HasBaselines(dir) THEN "test:visual" ELSE "test:visual:update"

RunIdle ==
    /\ env = "local"
    /\ screenshotsDir = {}
    /\ snapshotDir = EmptyStore
    /\ artifact = {}
    /\ page = [k \in Keys |-> Flat(1, 1, 255)]
    /\ pc = "idle"
    /\ cmd = None
    /\ todo = <<>>
    /\ attempt = 0
    /\ status = NoStatus
    /\ captured = EmptyStore
    /\ startSnap = EmptyStore
    /\ prev = NoRun

RunInit ==
    /\ env \in {"local", "ci"}
    /\ screenshotsDir \in {{}, {"old.png"}}
    /\ snapshotDir \in IF env = "ci" THEN {EmptyStore}
                       ELSE {EmptyStore} \cup [Keys -> {Flat(1, 1, 255)}]
                            \cup {[EmptyStore EXCEPT !["hero-section.png"] = Flat(1, 1, 255)]}
    /\ artifact \in IF env = "ci" THEN {{}, {"old.png"}} ELSE {{}}
    /\ page \in [Keys -> Renderings]
    /\ pc = "idle"
    /\ cmd = None
    /\ todo = <<>>
    /\ attempt = 0
    /\ status = NoStatus
    /\ captured = EmptyStore
    /\ startSnap = snapshotDir
    /\ prev = NoRun

\* The site changes what it renders for a snapshot.
PageChanges ==
    /\ \E k \in Keys, r \in Renderings :
          /\ page[k] # r
          /\ page' = [page EXCEPT ![k] = r]
    /\ UNCHANGED <<env, screenshotsDir, snapshotDir, artifact, pc, cmd, todo,
                   attempt, status, captured, startSnap, prev, cmpVars, gateVars, laterVars>>

\* scripts/test-visual-local.sh up to the npm command: mkdir -p, the check.
StartLocalRun ==
    /\ env = "local"
    /\ pc # "running"
    /\ pc' = "running"
    /\ cmd' = RunCommand(screenshotsDir)
    /\ todo' = TestOrder
    /\ attempt' = 0
    /\ status' = NoStatus
    /\ captured' = EmptyStore
    /\ startSnap' = snapshotDir
    /\ UNCHANGED <<env, screenshotsDir, snapshotDir, artifact, page, prev,
                   cmpVars, gateVars, laterVars>>

\* The job up to the npm command: a fresh checkout, the download of the
\* visual-baselines artifact into tests/visual/__screenshots__ (which may
\* fail: continue-on-error), the check.
StartCiRun ==
    /\ env = "ci"
    /\ pc # "running"
    /\ \E downloaded \in {{}, artifact} :
          /\ screenshotsDir' = downloaded
          /\ cmd' = RunCommand(downloaded)
    /\ snapshotDir' = EmptyStore
    /\ startSnap' = EmptyStore
    /\ pc' = "running"
    /\ todo' = TestOrder
    /\ attempt' = 0
    /\ status' = NoStatus
    /\ captured' = EmptyStore
    /\ UNCHANGED <<env, artifact, page, prev, cmpVars, gateVars, laterVars>>

\* One attempt of the test at the head of the queue (workers: 1).
RunTest ==
    /\ pc = "running"
    /\ todo # <<>>
    /\ LET k   == Head(todo)
           cap == page[k]
           r   == ToHaveScreenshot(UpdateSnapshots(cmd), snapshotDir[k], cap)
       IN  /\ snapshotDir' = IF r.write THEN [snapshotDir EXCEPT ![k] = cap]
                             ELSE snapshotDir
           /\ captured' = [captured EXCEPT ![k] = cap]
           /\ IF r.pass
              THEN /\ status' = [status EXCEPT ![k] =
                                   IF attempt > 0 THEN "flaky" ELSE "passed"]
                   /\ todo' = Tail(todo)
                   /\ attempt' = 0
              ELSE IF attempt < Retries(env)
              THEN /\ attempt' = attempt + 1
                   /\ UNCHANGED <<status, todo>>
              ELSE /\ status' = [status EXCEPT ![k] = "failed"]
                   /\ todo' = Tail(todo)
                   /\ attempt' = 0
    /\ UNCHANGED <<env, screenshotsDir, artifact, page, pc, cmd, startSnap, prev,
                   cmpVars, gateVars, laterVars>>

\* Did the "Run visual regression tests" step succeed: test:visual:update
\* exits non-zero when a test failed, test:visual is followed by || true.
StepSucceeded == cmd = "test:visual" \/ \A k \in Keys : status[k] # "failed"

\* The run ends.  In the job the "Upload visual baselines" step stores
\* tests/visual/__screenshots__ as the artifact when the run created
\* baselines (or on main) and every step succeeded; an empty directory
\* uploads nothing (if-no-files-found: warn).
EndRun ==
    /\ pc = "running"
    /\ todo = <<>>
    /\ pc' = "idle"
    /\ prev' = [cmd |-> cmd,
                emptyAtStart |-> (startSnap = EmptyStore /\ screenshotsDir = {}),
                captured |-> captured, status |-> status]
    /\ artifact' = IF env = "ci" /\ StepSucceeded /\ screenshotsDir # {}
                   THEN screenshotsDir ELSE artifact
    /\ startSnap' = snapshotDir
    /\ cmd' = None
    /\ status' = NoStatus
    /\ captured' = EmptyStore
    /\ UNCHANGED <<env, screenshotsDir, snapshotDir, page, todo, attempt,
                   cmpVars, gateVars, laterVars>>

\* The run is cancelled (the job's timeout or an abort, Ctrl-C on the
\* script): the command stops where it is; no later step of the script runs
\* and no step of the job that requires success().
Cancel ==
    /\ pc = "running"
    /\ pc' = "cancelled"
    /\ UNCHANGED <<env, screenshotsDir, snapshotDir, artifact, page, cmd, todo,
                   attempt, status, captured, startSnap, prev,
                   cmpVars, gateVars, laterVars>>

(***************************************************************************)
(* VisualTestHelper.generateDiffReport(results).                           *)
(***************************************************************************)
\* Longest result list, and most generateDiffReport calls in a behaviour.
MaxResults == 3
MaxCalls == 2

\* The values of new Date() at a call.
Times == 1..MaxCalls

\* path.join(this.outputDir, 'report.html')
ReportPath == <<"outputDir", "report.html">>

\* A result as a caller hands it over: what compareScreenshots returned for
\* the key, with the key's name and the URLs of its three images.
ReportResult(name, numDiffPixels, width, height) ==
    LET r == Result(numDiffPixels, width, height, {})
    IN  [name |-> name, match |-> r.match, diffPixels |-> r.diffPixels,
         diffPercentage |-> r.diffPercentage,
         baselineUrl |-> <<"baseline", name>>,
         actualUrl |-> <<"actual", name>>,
         diffUrl |-> <<"diff", name>>]

ReportResults ==
    { ReportResult(n, c, MaxSide, MaxSide + 1) :
        n \in Keys, c \in {0, 1, MaxSide * (MaxSide + 1)} }

RECURSIVE SeqsUpTo(_, _)
SeqsUpTo(S, n) ==
    IF n = 0 THEN {<<>>}
    ELSE LET shorter == SeqsUpTo(S, n - 1)
         IN  shorter \cup { Append(q, x) : q \in shorter, x \in S }

\* Number.prototype.toFixed(2) of a percentage: the hundredths, rounded.
ToFixed2(f) == (f.num * 200 + f.den) \div (2 * f.den)

\* result.match ? 'PASSED' : 'FAILED'
ReportStatus(result) == IF result.match THEN "PASSED" ELSE "FAILED"

\* Faulty variant of Entry: the images and the numbers are shown for every
\* result.
MutEntryAlwaysDetails(result) ==
    [class |-> IF result.match THEN "pass" ELSE "fail",
     name |-> result.name,
     status |-> ReportStatus(result),
     stats |-> <<result.diffPixels, ToFixed2(result.diffPercentage)>>,
     images |-> <<result.baselineUrl, result.actualUrl, result.diffUrl>>]

\* One <div class="test ..."> of the report.
Entry(result) ==
    [class |-> IF result.match THEN "pass" ELSE "fail",
     name |-> result.name,
     status |-> ReportStatus(result),
     stats |-> IF ~result.match
               THEN <<result.diffPixels, ToFixed2(result.diffPercentage)>>
               ELSE <<>>,
     images |-> IF ~result.match
                THEN <<result.baselineUrl, result.actualUrl, result.diffUrl>>
                ELSE <<>>]

\* results.filter(r => r.match).length and results.filter(r => !r.match).length
CountMatch(rs, m) == Cardinality({ i \in 1..Len(rs) : rs[i].match = m })

\* Faulty variant of ReportHtml: every entry carries the generation time.
MutReportHtmlStampedEntries(rs, now) ==
    [total |-> Len(rs),
     passed |-> CountMatch(rs, TRUE),
     failed |-> CountMatch(rs, FALSE),
     generated |-> now,
     tests |-> [i \in 1..Len(rs) |-> [Entry(rs[i]) EXCEPT !.class = <<@, now>>]]]

\* The document: the summary and results.map(...).join('').
ReportHtml(rs, now) ==
    [total |-> Len(rs),
     passed |-> CountMatch(rs, TRUE),
     failed |-> CountMatch(rs, FALSE),
     generated |-> now,
     tests |-> [i \in 1..Len(rs) |-> Entry(rs[i])]]

\* No report.html.
NoReport == [total |-> 0, passed |-> 0, failed |-> 0, generated |-> 0, tests |-> <<>>]

\* fs.writeFileSync(path.join(this.outputDir, 'report.html'), html): ENOENT
\* when outputDir does not exist (generateDiffReport creates no directory).
ReportOutcome(rs, dirExists, now) ==
    IF dirExists
    THEN [threw |-> FALSE, wrote |-> {ReportPath}, html |-> ReportHtml(rs, now)]
    ELSE [threw |-> TRUE, wrote |-> {}, html |-> NoReport]

RepIdle ==
    /\ results = <<>>
    /\ report = NoReport
    /\ prevReport = NoReport
    /\ repCalls = 0
    /\ repWrote = {}
    /\ repThrew = FALSE

RepInit ==
    /\ results \in SeqsUpTo(ReportResults, MaxResults)
    /\ report = NoReport
    /\ prevReport = NoReport
    /\ repCalls = 0
    /\ repWrote = {}
    /\ repThrew = FALSE

\* The files of a project in which generateDiffReport is called: baselines
\* and captures exist, outputDir may not.
RepFiles ==
    /\ threshold = DefaultThreshold
    /\ files \in { [actualPath |-> a, baselinePath |-> Flat(1, 1, 255), diffPath |-> NoFile] :
                     a \in {Flat(1, 1, 255), Flat(1, 1, 0)} }
    /\ maskRect = NoMask
    /\ outputDir \in BOOLEAN
    /\ ret = NoCall

GenerateDiffReport ==
    /\ repCalls < MaxCalls
    /\ \E now \in Times :
          LET out == ReportOutcome(results, outputDir, now)
          IN  /\ now >= report.generated
              /\ report' = IF out.threw THEN report ELSE out.html
              /\ repWrote' = out.wrote
              /\ repThrew' = out.threw
    /\ prevReport' = report
    /\ repCalls' = repCalls + 1
    /\ UNCHANGED <<results, cmpVars, gateVars, runVars, schedVars, capVars, trVars,
                   sinkVars, toolVars>>

(***************************************************************************)
(* The runner under playwright-visual.config: the tests of a project and   *)
(* file form one group; a worker executes one test at a time, a group is   *)
(* executed by one worker at a time unless fullyParallel, and at most      *)
(* `workers` workers exist at a time.  A failed test with retries left is  *)
(* executed again, first in its group.                                     *)
(***************************************************************************)
\* projects: chromium, mobile-chrome
Projects == {"chromium", "mobile-chrome"}

\* Faulty variant of Workers: one worker per project.
MutWorkersPerProject == Cardinality(Projects)

\* workers: 1
Workers == 1

\* fullyParallel: false
FullyParallel == FALSE

\* The tests the runner finds in tests/visual, in file order, by snapshot:
\* those of TestOrder and 'Mobile - Homepage Hero @mobile @critical'.
SchedTests == TestOrder \o <<"mobile-hero.png">>

\* The tags in the title of a test.
Tags(k) == IF k = "mobile-hero.png" THEN {"@mobile", "@critical"} ELSE {"@critical"}

\* Does project p run test k: the test matches the project's grep option.
\* Neither project sets one: grep: /@mobile/ of mobile-chrome is a key of
\* its `use` object, which holds fixture options only.
Selected(p, k) ==
    LET grep == None
    IN  grep = None \/ grep \in Tags(k)

Jobs == { j \in Projects \X { SchedTests[i] : i \in 1..Len(SchedTests) } :
            Selected(j[1], j[2]) }

SchedIdle ==
    /\ retries = 0
    /\ queue = [p \in Projects |-> <<>>]
    /\ running = {}
    /\ outcome = [j \in Jobs |-> "pending"]

SchedInit ==
    /\ retries \in { Retries(e) : e \in {"local", "ci"} }
    /\ queue = [p \in Projects |->
                  LET mine == SelectSeq(SchedTests, LAMBDA k : Selected(p, k))
                  IN  [i \in 1..Len(mine) |-> <<p, mine[i], 0>>]]
    /\ running = {}
    /\ outcome = [j \in Jobs |-> "pending"]

\* A worker takes the next test of a group.
Dispatch ==
    /\ Cardinality(running) < Workers
    /\ \E p \in Projects :
          /\ queue[p] # <<>>
          /\ FullyParallel \/ \A r \in running : r[1] # p
          /\ running' = running \cup {Head(queue[p])}
          /\ queue' = [queue EXCEPT ![p] = Tail(@)]
    /\ UNCHANGED <<retries, outcome, cmpVars, gateVars, runVars, repVars,
                   capVars, trVars, sinkVars, toolVars>>

\* The test a worker executes ends, passed or failed.
FinishTest ==
    /\ \E r \in running, pass \in BOOLEAN :
          LET j == <<r[1], r[2]>>
          IN  /\ running' = running \ {r}
              /\ IF pass
                 THEN /\ outcome' = [outcome EXCEPT ![j] =
                                       IF r[3] > 0 THEN "flaky" ELSE "passed"]
                      /\ UNCHANGED queue
                 ELSE IF r[3] < retries
                 THEN /\ queue' = [queue EXCEPT ![r[1]] =
                                     <<<<r[1], r[2], r[3] + 1>>>> \o @]
                      /\ UNCHANGED outcome
                 ELSE /\ outcome' = [outcome EXCEPT ![j] = "failed"]
                      /\ UNCHANGED queue
    /\ UNCHANGED <<retries, cmpVars, gateVars, runVars, repVars, capVars, trVars,
                   sinkVars, toolVars>>

(***************************************************************************)
(* The capture path: the steps a visual test (its beforeEach hook, then    *)
(* its body) or a call of a VisualTestHelper method awaits, in order.      *)
(* A step is the awaited call, the kind of thing it waits for, whether     *)
(* the call site passes a timeout of its own, and whether the call site    *)
(* catches its rejection.                                                  *)
(***************************************************************************)
Step(op, class, ownTimeout, caught) ==
    [op |-> op, class |-> class, ownTimeout |-> ownTimeout, caught |-> caught]

\* test.beforeEach of 'Critical Path Only'
BeforeEach ==
    << Step("page.goto", "navigation", TRUE, FALSE),
       Step("applyVisualRegressionStyles", "normalizer", FALSE, FALSE),
       Step("dismissCookieConsent", "consent", TRUE, TRUE),
       Step("document.fonts.ready", "readiness", FALSE, FALSE) >>

\* test.beforeEach of 'Extended'
BeforeEachExtended ==
    << Step("page.goto", "navigation", FALSE, FALSE),
       Step("applyVisualRegressionStyles", "normalizer", FALSE, FALSE),
       Step("dismissCookieConsent", "consent", TRUE, TRUE) >>

SnapshotStep == Step("toHaveScreenshot", "snapshot", TRUE, FALSE)

\* The tests of visual-regression.spec.ts that are executed, and the
\* VisualTestHelper methods a test can call.
ProgramNames ==
    {"hero-section", "hero-section (no img)", "navigation-bar", "footer",
     "mobile-hero", "signup-form", "features-section", "tablet-main-content",
     "waitForAllImages", "waitForFonts", "scrollToElement", "stabilizeContent"}

Body(name) ==
    CASE name = "hero-section" ->
           << Step("heroSection.waitFor", "element", TRUE, FALSE),
              Step("heroImage.waitFor", "readiness", FALSE, FALSE),
              Step("heroImage.complete", "readiness", FALSE, FALSE),
              SnapshotStep >>
      [] name = "hero-section (no img)" ->
           << Step("heroSection.waitFor", "element", TRUE, FALSE),
              SnapshotStep >>
      [] name = "navigation-bar" ->
           << Step("navbar.waitFor", "element", TRUE, FALSE),
              Step("waitForTimeout", "settle", TRUE, FALSE),
              SnapshotStep >>
      [] name = "footer" ->
           << Step("scrollIntoViewIfNeeded", "scroll", FALSE, FALSE),
              Step("waitForTimeout", "settle", TRUE, FALSE),
              SnapshotStep >>
      [] name = "mobile-hero" ->
           << Step("heroSection.waitFor", "element", TRUE, FALSE),
              SnapshotStep >>
      [] name = "signup-form" ->
           << Step("page.goto", "navigation", FALSE, FALSE),
              Step("signupForm.waitFor", "element", TRUE, FALSE),
              SnapshotStep >>
      [] name = "features-section" ->
           << Step("findSectionByContent", "lookup", FALSE, FALSE),
              Step("scrollIntoViewIfNeeded", "scroll", FALSE, FALSE),
              Step("waitForTimeout", "settle", TRUE, FALSE),
              SnapshotStep >>
      [] name = "tablet-main-content" ->
           << Step("setViewportSize", "viewport", FALSE, FALSE),
              Step("page.reload", "navigation", FALSE, FALSE),
              Step("applyVisualRegressionStyles", "normalizer", FALSE, FALSE),
              SnapshotStep >>
      [] name = "waitForAllImages" ->
           << Step("waitForAllImages", "readiness", TRUE, FALSE) >>
      [] name = "waitForFonts" ->
           << Step("waitForFonts", "readiness", FALSE, FALSE) >>
      [] name = "scrollToElement" ->
           << Step("scrollIntoViewIfNeeded", "scroll", FALSE, FALSE),
              Step("waitForTimeout", "settle", TRUE, FALSE),
              Step("waitForLoadState networkidle", "readiness", TRUE, TRUE) >>
      [] name = "stabilizeContent" ->
           << Step("pause videos", "stabilize", FALSE, FALSE),
              Step("pause animations", "stabilize", FALSE, FALSE),
              Step("cancel timers", "stabilize", FALSE, FALSE) >>

Hook(name) ==
    CASE name \in {"hero-section", "hero-section (no img)", "navigation-bar",
                   "footer", "mobile-hero", "signup-form"} -> BeforeEach
      [] name \in {"features-section", "tablet-main-content"} -> BeforeEachExtended
      [] OTHER -> <<>>

Program(name) == Hook(name) \o Body(name)

\* What can happen to an awaited step: it resolves, what it waits for does
\* not come about, or the call itself rejects.
Outcomes(step) ==
    CASE step.class \in {"navigation", "readiness", "element", "scroll"} -> {"ok", "elapsed"}
      [] step.class \in {"normalizer", "consent", "stabilize", "snapshot"} -> {"ok", "throws"}
      [] step.class = "lookup" -> {"ok", "none"}
      [] OTHER -> {"ok"}

\* How the test goes on after a step: a rejection that the call site
\* catches is dropped; a wait with a timeout rejects when it elapses; a wait
\* without one lasts until the test's own timeout (timeout: 30 * 1000) ends
\* the test; any other rejection fails the test; no section found skips it.
Effect(step, o) ==
    CASE o = "ok" -> "proceed"
      [] o = "none" -> "skipped"
      [] o = "throws" -> IF step.caught THEN "caught" ELSE "failed"
      [] o = "elapsed" -> IF step.caught THEN "caught"
                          ELSE IF step.ownTimeout THEN "failed" ELSE "timedOut"

NoFailure == [op |-> None, class |-> None, how |-> None]

CapIdle ==
    /\ capProgram = None
    /\ capPos = 0
    /\ capTrace = <<>>
    /\ capSoft = {}
    /\ capStatus = "passed"
    /\ capFailedBy = NoFailure

CapInit ==
    /\ capProgram \in ProgramNames
    /\ capPos = 1
    /\ capTrace = <<>>
    /\ capSoft = {}
    /\ capStatus = "running"
    /\ capFailedBy = NoFailure

\* The next awaited step of the test settles.
RunStep ==
    /\ capStatus = "running"
    /\ LET prog == Program(capProgram)
           step == prog[capPos]
       IN  \E o \in Outcomes(step) :
              LET e == Effect(step, o)
              IN  IF e \in {"proceed", "caught"}
                  THEN /\ capTrace' = Append(capTrace, step)
                       /\ capSoft' = IF e = "caught" THEN capSoft \cup {step.op}
                                     ELSE capSoft
                       /\ capPos' = capPos + 1
                       /\ capStatus' = IF capPos = Len(prog) THEN "passed"
                                       ELSE "running"
                       /\ UNCHANGED capFailedBy
                  ELSE /\ capStatus' = e
                       /\ capFailedBy' = [op |-> step.op, class |-> step.class,
                                          how |-> o]
                       /\ UNCHANGED <<capTrace, capSoft, capPos>>
    /\ UNCHANGED <<capProgram, cmpVars, gateVars, runVars, repVars, schedVars, trVars,
                   sinkVars, toolVars>>

(***************************************************************************)
(* The TestRail sink: TestRailReporter (a reporter of playwright.config)   *)
(* and TestRailUploader (npm run testrail:upload, the "Upload to TestRail" *)
(* step of the e2e-tests job).                                             *)
(***************************************************************************)
\* const batchSize = 100
BatchSize == 100

\* Most onTestEnd calls in a behaviour.
MaxTests == 2

NumBatches(n) == (n + BatchSize - 1) \div BatchSize

\* The requests: who sends it, the API method, the batch.
AddRun(who) == <<who, "add_run", 0>>
AddResults(who, b) == <<who, "add_results_for_cases", b>>
CloseRun(who) == <<who, "close_run", 0>>

MaxBatches == NumBatches(BatchSize + MaxTests)

Requests ==
    UNION { {AddRun(w), CloseRun(w)} \cup { AddResults(w, b) : b \in 1..MaxBatches }
            : w \in {"reporter", "uploader"} }

Responses == {"ok", "fail"}

\* What a handler did: the requests it sent in order, those that failed,
\* those whose failure it logged, whether it threw, the run id it holds and
\* whether it called saveRunId.
Did(sent, failed, logged, threw, id) ==
    [sent |-> sent, failed |-> failed, logged |-> logged, threw |-> threw,
     runId |-> id, saved |-> FALSE]

\* this.saveRunId()
SaveRunId(d) == [d EXCEPT !.saved = TRUE]

\* Faulty variant of Catch: the rejection is passed on.
MutCatchRethrows(d) == d

\* try { ... } catch (error) { console.error(...) }
Catch(d) == IF d.threw THEN [d EXCEPT !.threw = FALSE, !.logged = d.failed] ELSE d

\* onBegin
OnBeginOutcome(configured, resp) ==
    IF ~configured THEN Did(<<>>, {}, {}, FALSE, 0)
    ELSE Catch(IF resp = "ok"
               THEN Did(<<AddRun("reporter")>>, {}, {}, FALSE, 1)
               ELSE Did(<<AddRun("reporter")>>, {AddRun("reporter")}, {}, TRUE, 0))

\* A test as the reporter and results.json present it: its title, the case
\* id of its TestRail annotation, the case id its title holds in brackets
\* ("[C12] ...") and the one it holds bare ("C12 ...") (0: none).
TestCase(title, annotation, bracketed, bare) ==
    [title |-> title, annotation |-> annotation, bracketed |-> bracketed, bare |-> bare]

\* An annotated test of the suite, a test without a case id, and a test
\* titled with its case id.
Tests ==
    { TestCase("homepage loads with correct title", 1001, 0, 0),
      TestCase("page has proper heading hierarchy", 0, 0, 0),
      TestCase("[C1002] main navigation", 0, 1002, 0) }

\* TestRailReporter.extractCaseId(test): the annotation, else /\[C(\d+)\]/
\* in the title (0: null).
ReporterExtractCaseId(test) ==
    IF test.annotation # 0 THEN test.annotation
    ELSE IF test.bracketed # 0 THEN test.bracketed
    ELSE 0

\* TestRailUploader.extractCaseId(title): /\[?C(\d+)\]?/ in the title.
UploaderExtractCaseId(test) ==
    IF test.bracketed # 0 THEN test.bracketed
    ELSE IF test.bare # 0 THEN test.bare
    ELSE 0

\* TestRailReporter.mapStatus
MapStatus(s) ==
    CASE s = "passed" -> 1
      [] s \in {"failed", "timedOut"} -> 5
      [] s = "skipped" -> 2
      [] OTHER -> 3

\* retries of playwright.config on CI
MainRetries == 2

\* onTestEnd(test, result): what it pushes to this.results.
OnTestEndResult(configured, id, test, st) ==
    IF ~configured \/ id = 0 THEN <<>>
    ELSE IF ReporterExtractCaseId(test) = 0 THEN <<>>
    ELSE <<[case_id |-> ReporterExtractCaseId(test), status_id |-> MapStatus(st)]>>

\* Faulty variant of SentUntilFailure: the loop goes on after a rejection.
RECURSIVE MutSentAll(_, _, _, _)
MutSentAll(who, resp, b, nb) ==
    IF b > nb THEN <<>>
    ELSE <<AddResults(who, b)>> \o MutSentAll(who, resp, b + 1, nb)

\* The batches a loop of awaited posts sends when a rejection leaves the
\* loop: up to and including the first that fails.
RECURSIVE SentUntilFailure(_, _, _, _)
SentUntilFailure(who, resp, b, nb) ==
    IF b > nb THEN <<>>
    ELSE IF resp[b] = "fail" THEN <<AddResults(who, b)>>
    ELSE <<AddResults(who, b)>> \o SentUntilFailure(who, resp, b + 1, nb)

FailedOf(sent, resp) ==
    { sent[i] : i \in { j \in 1..Len(sent) : resp[sent[j][3]] = "fail" } }

\* onEnd(result)
OnEndOutcome(configured, id, count, fullStatus, resp, closeResp) ==
    IF ~configured \/ id = 0 \/ count = 0 THEN Did(<<>>, {}, {}, FALSE, id)
    ELSE LET sent   == SentUntilFailure("reporter", resp, 1, NumBatches(count))
             failed == FailedOf(sent, resp)
         IN  Catch(IF failed # {}
                   THEN Did(sent, failed, {}, TRUE, id)
                   ELSE IF fullStatus # "passed"
                   THEN SaveRunId(Did(sent, {}, {}, FALSE, id))
                   ELSE IF closeResp = "ok"
                   THEN SaveRunId(Did(Append(sent, CloseRun("reporter")), {}, {}, FALSE, id))
                   ELSE Did(Append(sent, CloseRun("reporter")),
                            {CloseRun("reporter")}, {}, TRUE, id))

\* results.slice(i, i + batchSize) of n results: the positions it holds.
Slice(i, n) ==
    [first |-> i + 1, last |-> IF i + BatchSize < n THEN i + BatchSize ELSE n]

\* for (let i = 0; i < results.length; i += batchSize): the batch of each round.
Batches(n) == [b \in 1..NumBatches(n) |-> Slice((b - 1) * BatchSize, n)]

\* Faulty variant of SubmitResults: the first failure ends the loop.
MutSubmitStopsAtFailure(count, resp) ==
    LET sent   == SentUntilFailure("uploader", resp, 1, NumBatches(count))
        failed == FailedOf(sent, resp)
    IN  Did(sent, failed, failed, FALSE, 1)

\* submitResults(runId, results): every batch is posted; a batch that fails
\* is logged and the loop goes on.
SubmitResults(count, resp) ==
    LET nb     == NumBatches(count)
        sent   == [b \in 1..nb |-> AddResults("uploader", b)]
        failed == FailedOf(sent, resp)
    IN  Did(sent, failed, failed, FALSE, 1)

\* new TestRailUploader() and uploadResults(): the exit code of the script
\* with what it sent, the run it posted to and the batches it posted.
\* haveResults: test-results/results.json exists; haveRunInfo:
\* test-results/testrail-run.json exists.
UploadOutcome(configured, haveResults, haveRunInfo, count, runResp, resp) ==
    IF ~configured
    THEN [exit |-> 1, did |-> Did(<<>>, {}, {}, TRUE, 0), run |-> None, batches |-> <<>>]
    ELSE IF ~haveResults
    THEN [exit |-> 0, did |-> Did(<<>>, {}, {}, FALSE, 0), run |-> None, batches |-> <<>>]
    ELSE IF ~haveRunInfo /\ runResp = "fail"
    THEN [exit |-> 1,
          did |-> Did(<<AddRun("uploader")>>, {AddRun("uploader")},
                      {AddRun("uploader")}, FALSE, 0),
          run |-> None, batches |-> <<>>]
    ELSE LET s == SubmitResults(count, resp)
         IN  [exit |-> 0,
              did |-> IF haveRunInfo THEN s
                      ELSE [s EXCEPT !.sent = <<AddRun("uploader")>> \o @],
              run |-> IF haveRunInfo THEN "existing" ELSE "new",
              batches |-> [i \in 1..Len(s.sent) |-> Batches(count)[s.sent[i][3]]]]

\* The attempts counted after a handler sent its requests.
Count(attempts, sent) ==
    [q \in Requests |->
        attempts[q] + Cardinality({ i \in 1..Len(sent) : sent[i] = q })]

NoStep == [upload |-> "pending", job |-> "pending"]

\* The upload script has not run.
NoUpload == [run |-> None, count |-> 0, cases |-> <<>>, batches |-> <<>>]

TrIdle ==
    /\ trConfigured = FALSE
    /\ trPhase = "done"
    /\ runId = 0
    /\ trCount = 0
    /\ trAttempts = [q \in Requests |-> 0]
    /\ trFailed = {}
    /\ trLogged = {}
    /\ trThrew = FALSE
    /\ runStatus = "passed"
    /\ stepOutcome = NoStep
    /\ trEnded = <<>>
    /\ trResults = <<>>
    /\ trClosed = FALSE
    /\ trSaved = FALSE
    /\ uploaded = NoUpload

\* The reporter at the start of a run, or in a run after onBegin has created
\* the TestRail run and onTestEnd has collected results.
TrInit ==
    /\ trConfigured \in BOOLEAN
    /\ runStatus \in {"passed", "failed"}
    /\ \/ /\ trPhase = "begin"
          /\ runId = 0
          /\ trCount = 0
          /\ trAttempts = [q \in Requests |-> 0]
       \/ /\ trConfigured
          /\ trPhase = "tests"
          /\ runId = 1
          /\ trCount \in {BatchSize - 1, BatchSize}
          /\ trAttempts = [q \in Requests |-> IF q = AddRun("reporter") THEN 1 ELSE 0]
    /\ trFailed = {}
    /\ trLogged = {}
    /\ trThrew = FALSE
    /\ stepOutcome = NoStep
    /\ trEnded = <<>>
    /\ trResults = <<>>
    /\ trClosed = FALSE
    /\ trSaved = FALSE
    /\ uploaded = NoUpload

Apply(d) ==
    /\ trAttempts' = Count(trAttempts, d.sent)
    /\ trFailed' = trFailed \cup d.failed
    /\ trLogged' = trLogged \cup d.logged
    /\ trThrew' = (trThrew \/ d.threw)

OnBegin ==
    /\ trPhase = "begin"
    /\ \E resp \in Responses :
          LET d == OnBeginOutcome(trConfigured, resp)
          IN  /\ Apply(d)
              /\ runId' = d.runId
    /\ trPhase' = "tests"
    /\ UNCHANGED <<trConfigured, trCount, runStatus, stepOutcome, sinkVars,
                   cmpVars, gateVars, runVars, repVars, schedVars, capVars, toolVars>>

\* The attempts the runner may end next: the first attempt of a test that
\* has not run, or the retry of the attempt that just failed.
NextAttempts ==
    { e \in [test : Tests, status : {"passed", "failed"}, retry : 0..MainRetries] :
        IF e.retry = 0
        THEN \A i \in 1..Len(trEnded) : trEnded[i].test # e.test
        ELSE /\ trEnded # <<>>
             /\ trEnded[Len(trEnded)].test = e.test
             /\ trEnded[Len(trEnded)].status = "failed"
             /\ trEnded[Len(trEnded)].retry = e.retry - 1 }

\* onTestEnd(test, result)
OnTestEnd ==
    /\ trPhase = "tests"
    /\ Len(trEnded) < MaxTests
    /\ \E e \in NextAttempts :
          LET pushed == OnTestEndResult(trConfigured, runId, e.test, e.status)
          IN  /\ trEnded' = Append(trEnded, e)
              /\ trResults' = trResults \o pushed
              /\ trCount' = trCount + Len(pushed)
    /\ UNCHANGED <<trConfigured, trPhase, runId, trAttempts, trFailed, trLogged,
                   trThrew, runStatus, stepOutcome, trClosed, trSaved, uploaded,
                   cmpVars, gateVars, runVars, repVars, schedVars, capVars, toolVars>>

OnEnd ==
    /\ trPhase = "tests"
    /\ \E resp \in [1..MaxBatches -> Responses], closeResp \in Responses :
          LET d == OnEndOutcome(trConfigured, runId, trCount, runStatus, resp, closeResp)
          IN  /\ Apply(d)
              /\ trClosed' = /\ \E i \in 1..Len(d.sent) : d.sent[i] = CloseRun("reporter")
                             /\ CloseRun("reporter") \notin d.failed
              /\ trSaved' = d.saved
    /\ trPhase' = "upload"
    /\ UNCHANGED <<trConfigured, runId, trCount, runStatus, stepOutcome,
                   trEnded, trResults, uploaded,
                   cmpVars, gateVars, runVars, repVars, schedVars, capVars, toolVars>>

\* saveRunId() has written test-results/testrail-run.json.
HaveRunInfo == trSaved

\* The tests of results.json: each test that ran, once.
ReportedTests ==
    LET first == { i \in 1..Len(trEnded) :
                     \A j \in 1..(i - 1) : trEnded[j].test # trEnded[i].test }
        RECURSIVE From(_)
        From(i) == IF i > Len(trEnded) THEN <<>>
                   ELSE IF i \in first THEN <<trEnded[i].test>> \o From(i + 1)
                   ELSE From(i + 1)
    IN  From(1)

\* processSuite: the case ids of the results it collects, one per test whose
\* title holds a case id.
RECURSIVE ProcessSuite(_)
ProcessSuite(tests) ==
    IF tests = <<>> THEN <<>>
    ELSE LET id == UploaderExtractCaseId(Head(tests))
         IN  (IF id = 0 THEN <<>> ELSE <<id>>) \o ProcessSuite(Tail(tests))

\* The rest of the e2e-tests job: "Run E2E tests" ends with the run's status
\* (a reporter that threw fails it); "Upload to TestRail" runs when
\* TESTRAIL_URL is set, with continue-on-error: true.  earlier: the results
\* the uploader collects for the tests that ended before those of trEnded.
UploadStep ==
    /\ trPhase = "upload"
    /\ \E urlSet \in BOOLEAN, configured \in BOOLEAN, haveResults \in BOOLEAN,
          earlier \in IF trCount = Len(trResults) THEN {0} ELSE {0, 1, BatchSize + 1},
          runResp \in Responses, resp \in [1..MaxBatches -> Responses] :
          LET cases == ProcessSuite(ReportedTests)
              count == earlier + Len(cases)
              u == UploadOutcome(configured, haveResults, HaveRunInfo, count,
                                 runResp, resp)
              job == IF runStatus = "passed" /\ ~trThrew THEN "success" ELSE "failure"
          IN  IF urlSet
              THEN /\ trAttempts' = Count(trAttempts, u.did.sent)
                   /\ trFailed' = trFailed \cup u.did.failed
                   /\ trLogged' = trLogged \cup u.did.logged
                   /\ stepOutcome' =
                        [upload |-> IF u.exit = 0 THEN "success" ELSE "failure",
                         job |-> job]
                   /\ uploaded' = IF configured /\ haveResults
                                  THEN [run |-> u.run, count |-> count,
                                        cases |-> cases, batches |-> u.batches]
                                  ELSE NoUpload
              ELSE /\ UNCHANGED <<trAttempts, trFailed, trLogged, uploaded>>
                   /\ stepOutcome' = [upload |-> "skipped", job |-> job]
    /\ trPhase' = "done"
    /\ UNCHANGED <<trConfigured, runId, trCount, trThrew, runStatus,
                   trEnded, trResults, trClosed, trSaved,
                   cmpVars, gateVars, runVars, repVars, schedVars, capVars, toolVars>>

(***************************************************************************)
(* The test summary (global teardown).                                     *)
(***************************************************************************)
\* processSpec: the counter a test's status adds to.  A test that passed on
\* a retry has status passed (and counts as flaky besides).
SummaryCategory(s) ==
    CASE s \in {"passed", "flaky"} -> "passed"
      [] s \in {"failed", "timedOut"} -> "failed"
      [] s = "skipped" -> "skipped"
      [] OTHER -> None

(***************************************************************************)
(* generateTestSummary (global teardown) over the suites of a results      *)
(* file.                                                                   *)
(***************************************************************************)
\* Deepest nesting of suites below a top-level suite.
MaxNest == 1

\* A suite: its specs and its nested suites.
Suite(specs, suites) == [specs |-> specs, suites |-> suites]

\* No summary computed.
NoSummary == [total |-> -1]

\* The tests of a spec, one per project.  The second has no projectName.
SummaryProjects == <<"chromium", None>>

\* status and retry of a test: passed, passed on a retry, failed after a
\* retry, timed out, skipped, interrupted.
TestOutcomes ==
    { <<"passed", 0>>, <<"passed", 1>>, <<"failed", 1>>, <<"timedOut", 0>>,
      <<"skipped", 0>>, <<"interrupted", 0>> }

\* The values of suite.specs: absent, or one spec whose tests are absent or
\* a test for each of the first projects.
SuiteSpecs ==
    LET SpecTests ==
          UNION { { [i \in 1..n |->
                       [status |-> o[i][1], retry |-> o[i][2],
                        projectName |-> SummaryProjects[i]]]
                    : o \in [1..n -> TestOutcomes] }
                  : n \in 0..Len(SummaryProjects) }
    IN  {<<>>} \cup { <<[tests |-> ts]>> : ts \in SpecTests }

\* The suites nested at most d deep.
RECURSIVE Suites(_)
Suites(d) ==
    IF d = 0 THEN { Suite(sp, <<>>) : sp \in SuiteSpecs }
    ELSE Suites(d - 1) \cup { Suite(sp, <<n>>) : sp \in SuiteSpecs, n \in Suites(d - 1) }

\* processSuites: the tests it hands to processSpec, in order.
RECURSIVE ProcessSuites(_)
ProcessSuites(suites) ==
    LET RECURSIVE VisitSpecs(_)
        VisitSpecs(specs) ==
            IF specs = <<>> THEN <<>> ELSE Head(specs).tests \o VisitSpecs(Tail(specs))
    IN  IF suites = <<>> THEN <<>>
        ELSE VisitSpecs(Head(suites).specs)
             \o ProcessSuites(Head(suites).suites)
             \o ProcessSuites(Tail(suites))

\* test.projectName || 'unknown'
BrowserName(test) == IF test.projectName = None THEN "unknown" ELSE test.projectName

\* Faulty variant of IsFlaky: every retried test counts.
MutIsFlakyAnyStatus(test) == test.retry > 0

\* test.retry > 0 && test.status === 'passed'
IsFlaky(test) == test.retry > 0 /\ test.status = "passed"

\* The summary before processSuites.
EmptySummary ==
    [stats |-> [total |-> 0, passed |-> 0, failed |-> 0, skipped |-> 0,
                flaky |-> 0, passRate |-> 0],
     failedTests |-> <<>>,
     browsers |-> [b \in {} |-> 0]]

\* processSpec, for one test.
ProcessTest(sm, test) ==
    LET b   == BrowserName(test)
        cat == SummaryCategory(test.status)
        One(c) == IF c THEN 1 ELSE 0
        br  == [x \in DOMAIN sm.browsers \cup {b} |->
                   IF x \in DOMAIN sm.browsers THEN sm.browsers[x]
                   ELSE [total |-> 0, passed |-> 0, failed |-> 0]]
    IN  [stats |-> [sm.stats EXCEPT !.total = @ + 1,
                                    !.passed = @ + One(cat = "passed"),
                                    !.failed = @ + One(cat = "failed"),
                                    !.skipped = @ + One(cat = "skipped"),
                                    !.flaky = @ + One(IsFlaky(test))],
         failedTests |-> IF cat = "failed"
                         THEN Append(sm.failedTests, [browser |-> b, status |-> test.status])
                         ELSE sm.failedTests,
         browsers |-> [br EXCEPT ![b] = [total |-> @.total + 1,
                                         passed |-> @.passed + One(cat = "passed"),
                                         failed |-> @.failed + One(cat = "failed")]]]

\* Math.round(x) for x = num / den >= 0
MathRound(num, den) == (2 * num + den) \div (2 * den)

\* generateTestSummary(results, metadata), results.suites = suites
GenerateTestSummary(suites) ==
    LET RECURSIVE ProcessTests(_, _)
        ProcessTests(acc, tests) ==
            IF tests = <<>> THEN acc
            ELSE ProcessTests(ProcessTest(acc, Head(tests)), Tail(tests))
        sm == ProcessTests(EmptySummary, ProcessSuites(suites))
    IN  [sm EXCEPT !.stats.passRate =
            IF sm.stats.total > 0
            THEN MathRound(sm.stats.passed * 100, sm.stats.total)
            ELSE 0]

\* test-results/results.json before the teardown.
SumInit ==
    /\ tree \in {<<>>} \cup { <<u>> : u \in Suites(MaxNest) }
    /\ summary = NoSummary

\* globalTeardown
GlobalTeardown ==
    /\ summary = NoSummary
    /\ summary' = GenerateTestSummary(tree)
    /\ UNCHANGED <<tree, cmtVars, loadVars, cmpVars, gateVars, runVars, repVars,
                   schedVars, capVars, trVars, sinkVars>>

(***************************************************************************)
(* The "Comment PR with visual diff results" step.                         *)
(***************************************************************************)
\* The contents of visual-test-results.json: no file, text that is not
\* JSON, the report object of Playwright's JSON reporter ({config, suites,
\* errors}, with its number of unexpected tests), or an array of comparison
\* results {name, match, diffPercentage}.
ResultsFiles ==
    LET Entries == [name : Keys, match : BOOLEAN]
    IN  {[kind |-> "absent"], [kind |-> "invalid"]}
        \cup { [kind |-> "report", unexpected |-> n] : n \in 0..Cardinality(Keys) }
        \cup { [kind |-> "array", entries |-> es]
               : es \in UNION { [1..n -> Entries] : n \in 0..Cardinality(Keys) } }

\* The script of the step: the comment it builds (heading None: none).
PrComment(mode, file) ==
    LET Say(h, names) == [heading |-> h, listed |-> names]
        failed == SelectSeq(file.entries, LAMBDA r : ~r.match)
    IN  IF mode = "baseline" THEN Say("Visual Regression Baselines Created", <<>>)
        ELSE IF file.kind # "absent"
        THEN IF file.kind = "invalid" \/ file.kind = "report"
             \* JSON.parse throws; results.filter is not a function
             THEN Say("results could not be parsed", <<>>)
             ELSE IF Len(failed) > 0
             THEN Say("Visual Regression Test Failed",
                      [i \in 1..Len(failed) |-> failed[i].name])
             ELSE Say("Visual Regression Tests Passed", <<>>)
        ELSE IF mode = "comparison"
        THEN Say("no results file was generated", <<>>)
        ELSE Say(None, <<>>)

\* The job after "Run visual regression tests" (testMode "": the step failed
\* before it set test_mode).
CmtInit ==
    /\ eventName \in {"pull_request", "push"}
    /\ testMode \in {"baseline", "comparison", ""}
    /\ resultsFile \in ResultsFiles
    /\ comment = [heading |-> None, listed |-> <<>>]

\* The step runs on a pull request when no earlier step failed.
CommentPr ==
    /\ comment.heading = None
    /\ comment' = IF eventName = "pull_request" /\ testMode # ""
                  THEN PrComment(testMode, resultsFile)
                  ELSE [heading |-> "skipped", listed |-> <<>>]
    /\ UNCHANGED <<eventName, testMode, resultsFile, sumVars, loadVars, cmpVars,
                   gateVars, runVars, repVars, schedVars, capVars, trVars, sinkVars>>


(***************************************************************************)
(* The k6 scenario of performance-test-scenarios.js.                       *)
(***************************************************************************)
\* Most iterations of the default function in a behaviour.
MaxIterations == 14

\* errors: ['rate<0.1'].  The rate of a Rate metric is the fraction of the
\* samples added to it that are non-zero (0 when none was added).
ErrorsThresholdPasses(nonZero, total) == total = 0 \/ nonZero * 10 < total

\* The metrics when the test starts.
LoadInit ==
    /\ iterations = 0
    /\ failedIters = 0
    /\ errorsTrue = 0
    /\ errorsTotal = 0

\* One iteration of the default function: check(...) is true when both
\* homepage checks hold; `check(...) || errorRate.add(1)`.
Iteration ==
    /\ iterations < MaxIterations
    /\ \E loads \in BOOLEAN, quickly \in BOOLEAN :
          LET checked == loads /\ quickly
          IN  /\ iterations' = iterations + 1
              /\ failedIters' = IF checked THEN failedIters ELSE failedIters + 1
              /\ errorsTrue' = IF checked THEN errorsTrue ELSE errorsTrue + 1
              /\ errorsTotal' = IF checked THEN errorsTotal ELSE errorsTotal + 1
    /\ UNCHANGED <<sumVars, cmtVars, cmpVars, gateVars, runVars, repVars,
                   schedVars, capVars, trVars, sinkVars>>

(***************************************************************************)
(* Specifications.                                                         *)
(***************************************************************************)
\* The teardown summary, the pull-request comment and the load test when
\* they are not in play (on names the one that is).
ToolIdle(on) ==
    /\ on # "summary" => (tree = <<>> /\ summary = NoSummary)
    /\ on # "comment" => /\ eventName = "push"
                         /\ testMode = ""
                         /\ resultsFile = [kind |-> "absent"]
                         /\ comment = [heading |-> None, listed |-> <<>>]
    /\ on # "load" => /\ iterations = 0
                      /\ failedIters = 0
                      /\ errorsTrue = 0
                      /\ errorsTotal = 0

LaterIdle == RepIdle /\ SchedIdle /\ CapIdle /\ TrIdle /\ ToolIdle(None)

InitCmp == CmpInit /\ GateIdle /\ RunIdle /\ LaterIdle
NextCmp == CompareScreenshots
SpecCmp == InitCmp /\ [][NextCmp]_vars

InitDiff == DiffInit /\ GateIdle /\ RunIdle /\ LaterIdle
NextDiff == CompareScreenshots \/ NewActual
SpecDiff == InitDiff /\ [][NextDiff]_vars

InitGate == CmpIdle /\ GateInit /\ RunIdle /\ LaterIdle
NextGate == RaisePixelCap \/ RaiseRatioCap
SpecGate == InitGate /\ [][NextGate]_vars

Init == CmpIdle /\ GateIdle /\ RunInit /\ LaterIdle
Next == PageChanges \/ StartLocalRun \/ StartCiRun \/ RunTest \/ EndRun \/ Cancel
Spec == Init /\ [][Next]_vars

InitReport == RepFiles /\ GateIdle /\ RunIdle /\ RepInit /\ SchedIdle /\ CapIdle /\ TrIdle /\ ToolIdle(None)
NextReport == GenerateDiffReport
SpecReport == InitReport /\ [][NextReport]_vars

InitSched == CmpIdle /\ GateIdle /\ RunIdle /\ RepIdle /\ SchedInit /\ CapIdle /\ TrIdle /\ ToolIdle(None)
NextSched == Dispatch \/ FinishTest
SpecSched == InitSched /\ [][NextSched]_vars

InitCapture == CmpIdle /\ GateIdle /\ RunIdle /\ RepIdle /\ SchedIdle /\ CapInit /\ TrIdle /\ ToolIdle(None)
NextCapture == RunStep
SpecCapture == InitCapture /\ [][NextCapture]_vars

InitTestRail == CmpIdle /\ GateIdle /\ RunIdle /\ RepIdle /\ SchedIdle /\ CapIdle /\ TrInit /\ ToolIdle(None)
NextTestRail == OnBegin \/ OnTestEnd \/ OnEnd \/ UploadStep
SpecTestRail == InitTestRail /\ [][NextTestRail]_vars

InitSummary == CmpIdle /\ GateIdle /\ RunIdle /\ RepIdle /\ SchedIdle /\ CapIdle /\ TrIdle
               /\ SumInit /\ ToolIdle("summary")
NextSummary == GlobalTeardown
SpecSummary == InitSummary /\ [][NextSummary]_vars

InitComment == CmpIdle /\ GateIdle /\ RunIdle /\ RepIdle /\ SchedIdle /\ CapIdle /\ TrIdle
               /\ CmtInit /\ ToolIdle("comment")
NextComment == CommentPr
SpecComment == InitComment /\ [][NextComment]_vars

InitLoad == CmpIdle /\ GateIdle /\ RunIdle /\ RepIdle /\ SchedIdle /\ CapIdle /\ TrIdle
            /\ LoadInit /\ ToolIdle("load")
NextLoad == Iteration
SpecLoad == InitLoad /\ [][NextLoad]_vars

(***************************************************************************)
(* Properties.                                                             *)
(***************************************************************************)
Actual == files["actualPath"]
Baseline == files["baselinePath"]
Called == ret.status # "none"
BothExist == Actual # NoFile /\ Baseline # NoFile
SameSize == Actual.width = Baseline.width /\ Actual.height = Baseline.height

\* C1: the content of an existing baseline image changes only in a step of a
\* run that executes test:visual:update; no step of a test:visual run and no
\* step outside a run changes it, and the stored artifact never changes
\* outside such a run either.
C1_BaselinesChangeOnlyInUpdateRuns ==
    [][ /\ \A k \in Keys :
              (/\ snapshotDir[k] # NoFile
               /\ snapshotDir'[k] # NoFile
               /\ snapshotDir'[k] # snapshotDir[k])
              => (pc = "running" /\ cmd = "test:visual:update")
        /\ artifact' # artifact => (pc = "running" /\ cmd = "test:visual:update")
      ]_vars

\* C1 witness: a comparison run has failed a snapshot whose baseline existed
\* at its start, and the baseline is what it was.
C1_Witness ==
    /\ pc = "running"
    /\ cmd = "test:visual"
    /\ \E k \in Keys :
          /\ status[k] = "failed"
          /\ startSnap[k] # NoFile
          /\ captured[k] # startSnap[k]
          /\ snapshotDir[k] = startSnap[k]

\* C2 (as claimed): a run that starts from an empty baseline store executes
\* test:visual:update; the run after a completed run that started from an
\* empty store, against the page that run captured, executes test:visual and
\* ends with every snapshot passed.
C2_SecondRunCompares ==
    /\ (pc = "running" /\ startSnap = EmptyStore /\ screenshotsDir = {})
          => cmd = "test:visual:update"
    /\ (pc = "running" /\ prev.emptyAtStart /\ page = prev.captured)
          => /\ cmd = "test:visual"
             /\ (todo = <<>> /\ captured = prev.captured)
                   => \A k \in Keys : status[k] = "passed"

\* C3 (as claimed): a comparison called with a capture and no baseline is no
\* error, and afterwards the capture is the baseline.
C3_MissingBaselineIsCreated ==
    (Called /\ Actual # NoFile)
        => /\ ret.error # "ENOENT"
           /\ Baseline # NoFile

\* C4 (as claimed): bitmaps of different width or height make
\* compareScreenshots throw; no result is returned.
C4_DifferentSizesThrow ==
    (Called /\ BothExist /\ ~SameSize) => ret.status = "threw"

\* C5: byte-identical images compare as match = true, diffPixels = 0,
\* diffPercentage = 0, whatever the threshold.
C5_IdenticalImagesMatch ==
    (Called /\ BothExist /\ Actual = Baseline)
        => /\ ret.status = "returned"
           /\ ret.match
           /\ ret.diffPixels = 0
           /\ ret.diffPercentage.num = 0

C5_Witness ==
    /\ ret.status = "returned"
    /\ Actual = Baseline
    /\ NumPixels(Actual) > 1
    /\ threshold = DefaultThreshold

\* The pixels of the two bitmaps agree wherever the mask does not cover them.
DifferOnlyInMask ==
    \A i \in 1..NumPixels(Actual) :
        ~Masked(maskRect, Actual.width, i) => Actual.data[i] = Baseline.data[i]

\* C6 (as claimed): equally sized bitmaps that differ only inside the declared
\* mask compare as a match, whatever the threshold.
C6_MaskedDifferencesMatch ==
    (Called /\ BothExist /\ SameSize /\ maskRect # NoMask /\ DifferOnlyInMask)
        => (ret.status = "returned" /\ ret.match)

\* C7 (as claimed): a comparison is a match exactly when the differing-pixel
\* count is within the absolute cap and the percentage within the relative
\* cap, also when there are differing pixels.
C7_MatchIffWithinCaps ==
    ret.status = "returned"
        => \A cr \in RatioSteps :
              ret.match <=> WithinCaps(ret.diffPixels, NumPixels(Actual),
                                       MaxDiffPixels, cr)

\* The pixels pixelmatch counts, and the pixels the mask covers.
DifferingPixels ==
    { i \in 1..NumPixels(Actual) :
        PixelDiffers(Baseline.data[i], Actual.data[i], threshold) }
MaskedPixels ==
    { i \in 1..NumPixels(Actual) : Masked(maskRect, Actual.width, i) }

C9_DiffWrittenIffDifferences ==
    Called
        => /\ ("diffPath" \in ret.wrote)
                <=> (ret.status = "returned" /\ ret.diffPixels > 0)
           /\ (files["diffPath"] # NoFile) <=> ("diffPath" \in ret.wrote)

C9_Witness ==
    /\ ret.status = "returned"
    /\ ret.diffPixels > 0
    /\ files["diffPath"] # NoFile
    /\ files["diffPath"].width = Actual.width

\* C10: with the bitmaps fixed, raising the absolute or the relative cap
\* never turns a passed outcome into a failed one.
C10_RaisingCapsNeverFails ==
    prevVerdict = "passed" => verdict = "passed"

C10_Witness ==
    /\ prevVerdict = "failed"
    /\ verdict = "passed"
    /\ gCount > 0

\* A report without its "Generated:" line.
WithoutTimestamp(r) == [r EXCEPT !.generated = 0]

\* C11: a generateDiffReport call leaves the result list as it was, writes
\* nothing but outputDir/report.html, changes no baseline, capture or diff
\* file, runs no comparison and no capture; a second call on the same list
\* writes the content of the first but for the generation time.
C11_ReportIsIdempotent ==
    [][ repCalls' = repCalls + 1
          => /\ results' = results
             /\ repWrote' \subseteq {ReportPath}
             /\ files' = files
             /\ ret' = ret
             /\ snapshotDir' = snapshotDir
             /\ captured' = captured
             /\ (repCalls >= 1 /\ ~repThrew')
                   => WithoutTimestamp(report') = WithoutTimestamp(report)
      ]_vars

C11_Witness ==
    /\ repCalls = 2
    /\ ~repThrew
    /\ repWrote = {ReportPath}
    /\ prevReport.generated # report.generated
    /\ Len(results) >= 2
    /\ report.failed >= 1
    /\ report.passed >= 1

\* C12: the report written for a list shows Total = its length, Passed = its
\* results with match true, Failed = those with match false, one entry per
\* result in the list's order, and the three images, the differing-pixel
\* count and the percentage (to two decimals) for exactly the failed ones.
C12_ReportMatchesResults ==
    (repCalls > 0 /\ ~repThrew)
        => /\ report.total = Len(results)
           /\ report.passed = Cardinality({ i \in 1..Len(results) : results[i].match })
           /\ report.failed = Cardinality({ i \in 1..Len(results) : ~results[i].match })
           /\ report.passed + report.failed = report.total
           /\ Len(report.tests) = Len(results)
           /\ \A i \in 1..Len(results) :
                 LET e == report.tests[i]
                     r == results[i]
                     d == e.stats[2] * r.diffPercentage.den
                            - 100 * r.diffPercentage.num
                 IN  /\ e.name = r.name
                     /\ e.status = (IF r.match THEN "PASSED" ELSE "FAILED")
                     /\ r.match => (e.images = <<>> /\ e.stats = <<>>)
                     /\ ~r.match =>
                           /\ e.images = <<r.baselineUrl, r.actualUrl, r.diffUrl>>
                           /\ e.stats[1] = r.diffPixels
                           /\ 2 * d <= r.diffPercentage.den
                           /\ -2 * d <= r.diffPercentage.den

C12_Witness ==
    /\ repCalls > 0
    /\ ~repThrew
    /\ Len(results) = MaxResults
    /\ results[1].match
    /\ ~results[2].match
    /\ results[2].diffPixels = 1
    /\ report.tests[2].images # <<>>
    /\ report.tests[1].images = <<>>
    /\ report.failed = 1

\* A run has executed all its tests.
TestsDone == pc = "running" /\ todo = <<>>

\* The capture of a snapshot has another size than its baseline had.
LayoutChanged(k) ==
    /\ startSnap[k] # NoFile
    /\ captured[k] # NoFile
    /\ (captured[k].width # startSnap[k].width
           \/ captured[k].height # startSnap[k].height)

\* The run found no baseline for a snapshot and wrote one.
BaselineCreated(k) == startSnap[k] = NoFile /\ snapshotDir[k] # NoFile

\* C13 (as claimed): at the end of a comparison run every snapshot has one
\* status in the report, and a snapshot whose layout changed has another
\* status than one whose baseline was created by the run.
C13_EachOutcomeHasItsOwnStatus ==
    (TestsDone /\ cmd = "test:visual")
        => \A k1 \in Keys, k2 \in Keys :
              (LayoutChanged(k1) /\ BaselineCreated(k2))
                  => SummaryCategory(status[k1]) # SummaryCategory(status[k2])

\* C14: at most one test is being executed at any moment, whatever the
\* project and the retry.
C14_OneCaptureAtATime == Cardinality(running) <= 1

C14_Witness ==
    /\ \E r \in running : r[1] = "mobile-chrome" /\ r[3] > 0
    /\ \E k \in Keys : outcome[<<"chromium", k>>] = "flaky"
    /\ \E p \in Projects : queue[p] # <<>>

\* C15 (as claimed): no test and no helper call ends because a readiness
\* wait did not come about in time.
C15_ReadinessWaitsSoftFail ==
    ~(/\ capStatus \in {"failed", "timedOut"}
      /\ capFailedBy.how = "elapsed"
      /\ capFailedBy.class = "readiness")

\* C16 (as claimed): before every snapshot stabilizeContent has run, and the
\* Style Normalizer is applied after every readiness wait.
C16_CaptureOrder ==
    \A i \in 1..Len(capTrace) :
        capTrace[i].class = "snapshot"
            => /\ \E j \in 1..(i - 1) : capTrace[j].class = "stabilize"
               /\ \A j \in 1..(i - 1), n \in 1..(i - 1) :
                     (capTrace[j].class = "normalizer" /\ capTrace[n].class = "readiness")
                         => n < j

\* C17 (as claimed): a failing applyVisualRegressionStyles does not end the
\* test.
C17_StyleFailureIsSurvived ==
    ~(/\ capStatus # "running"
      /\ capFailedBy.op = "applyVisualRegressionStyles")

C19_FailedRequestIsRetried ==
    \A q \in trFailed : q \in trLogged /\ trAttempts[q] >= 2

\* C20 (as claimed): after a cancelled run on a developer's machine the
\* snapshot directory holds what it held when the run started.  (In the job
\* the workspace is discarded with the runner and Cancel leaves the
\* artifact alone.)
C20_CancelLeavesBaselines ==
    (pc = "cancelled" /\ env = "local") => snapshotDir = startSnap

\* The batches the reporter posted, and those TestRail failed.
ReporterBatches == { b \in 1..MaxBatches : trAttempts[AddResults("reporter", b)] > 0 }
ReporterFailedBatches == { b \in 1..MaxBatches : AddResults("reporter", b) \in trFailed }
AllBatchesPosted ==
    /\ ReporterBatches = 1..NumBatches(trCount)
    /\ ReporterFailedBatches = {}

\* C21 (as claimed): every test that ended with a TestRail annotation Cn has
\* a result with case id n among the reporter's results (when the reporter
\* holds a run) and among the results the upload script collected from
\* results.json (when it got that far).
C21_AnnotatedTestsReachBothSinks ==
    \A i \in 1..Len(trEnded) :
        LET t == trEnded[i].test
        IN  t.annotation # 0 =>
              /\ (trConfigured /\ runId # 0)
                    => \E j \in 1..Len(trResults) : trResults[j].case_id = t.annotation
              /\ uploaded.run # None
                    => \E j \in 1..Len(uploaded.cases) : uploaded.cases[j] = t.annotation

\* C22: after onEnd the run is closed only if the run passed and every batch
\* was posted without a failure; the run id is saved only if every batch was
\* posted without a failure; and when a batch failed no later batch was
\* posted, the run is not closed and the run id is not saved.
C22_CloseAndSaveFollowTheBatches ==
    trPhase \in {"upload", "done"} =>
        /\ (trClosed \/ trAttempts[CloseRun("reporter")] > 0)
              => (runStatus = "passed" /\ AllBatchesPosted)
        /\ trSaved => AllBatchesPosted
        /\ \A b \in ReporterFailedBatches :
              /\ \A c \in ReporterBatches : c <= b
              /\ ~trClosed
              /\ ~trSaved

C22_Witness ==
    /\ trPhase = "upload"
    /\ trCount > BatchSize
    /\ trResults # <<>>
    /\ trClosed
    /\ trSaved

C25_OneResultPerCase ==
    \A i \in 1..Len(trResults), j \in 1..Len(trResults) :
        i < j => trResults[i].case_id # trResults[j].case_id

\* The tests below the suites, counted along the tree.
RECURSIVE NumTests(_)
NumTests(suites) ==
    IF suites = <<>> THEN 0
    ELSE LET u == Head(suites)
             inSpecs == IF u.specs = <<>> THEN 0 ELSE Len(u.specs[1].tests)
         IN  inSpecs + NumTests(u.suites) + NumTests(Tail(suites))

RECURSIVE SumOver(_, _)
SumOver(f, field) ==
    IF DOMAIN f = {} THEN 0
    ELSE LET b == CHOOSE x \in DOMAIN f : TRUE
         IN  f[b][field] + SumOver([x \in DOMAIN f \ {b} |-> f[x]], field)

\* C26: after generateTestSummary, total is the number of tests below the
\* suites, passed + failed + skipped <= total, failedTests has stats.failed
\* entries, flaky <= passed, the browsers' total, passed and failed counts
\* add up to the stats', and passRate is in 0..100 and 0 when total is 0.
C26_SummaryCountsAgree ==
    summary # NoSummary =>
        LET st == summary.stats
        IN  /\ st.total = NumTests(tree)
            /\ st.passed + st.failed + st.skipped <= st.total
            /\ Len(summary.failedTests) = st.failed
            /\ st.flaky <= st.passed
            /\ SumOver(summary.browsers, "total") = st.total
            /\ SumOver(summary.browsers, "passed") = st.passed
            /\ SumOver(summary.browsers, "failed") = st.failed
            /\ st.passRate \in 0..100
            /\ st.total = 0 => st.passRate = 0

\* C26 witness: a summary over nested suites with a flaky test, a failed
\* test, a test that counts in no category and both browsers.
C26_Witness ==
    /\ summary # NoSummary
    /\ tree # <<>>
    /\ tree[1].suites # <<>>
    /\ summary.stats.flaky > 0
    /\ summary.stats.failed > 0
    /\ summary.stats.passed + summary.stats.failed + summary.stats.skipped
          < summary.stats.total
    /\ DOMAIN summary.browsers = {"chromium", "unknown"}
    /\ summary.stats.passRate = 33

\* C27 (as claimed): after the latest of the comparisons to one diffPath, a
\* file exists at diffPath only if that comparison counted a differing pixel.
C27_NoStaleDiff ==
    (Called /\ files["diffPath"] # NoFile)
        => (ret.status = "returned" /\ ret.diffPixels > 0)

\* C28 (as claimed): on a pull request in comparison mode, with a results
\* file, the comment is "Visual Regression Test Failed" when the report of
\* the JSON reporter holds an unexpected outcome and "Visual Regression
\* Tests Passed" when it holds none, and "results could not be parsed" is
\* posted only for a file that is not JSON.
C28_CommentFollowsTheReport ==
    (/\ eventName = "pull_request"
     /\ testMode = "comparison"
     /\ resultsFile.kind # "absent"
     /\ comment.heading # None)
        => /\ resultsFile.kind = "report"
                 => comment.heading = IF resultsFile.unexpected > 0
                                      THEN "Visual Regression Test Failed"
                                      ELSE "Visual Regression Tests Passed"
           /\ comment.heading = "results could not be parsed"
                 => resultsFile.kind = "invalid"

\* C29 (as claimed): a test tagged @mobile is executed by mobile-chrome
\* only, and mobile-chrome executes tests tagged @mobile only.
C29_MobileTestsOnMobileOnly ==
    \A r \in running : ("@mobile" \in Tags(r[2])) <=> (r[1] = "mobile-chrome")

\* C30 (as claimed): the rate of 'errors' is the fraction of the iterations
\* whose homepage check failed, and the threshold passes whenever fewer than
\* one iteration in ten failed it.
C30_ErrorsRateIsFailedFraction ==
    /\ errorsTotal > 0 => errorsTrue * iterations = failedIters * errorsTotal
    /\ failedIters * 10 < iterations => ErrorsThresholdPasses(errorsTrue, errorsTotal)

====
